---- MODULE Spec2Model ----
(***************************************************************************)
(* Model of the polite Zoopla scraper                                      *)
(* (src/realestate_agent/src/realestate_agent/scraper.py).                 *)
(*                                                                         *)
(* Python strings are TLA+ strings (TLC reads a string as the sequence of  *)
(* its characters: Len, SubSeq and \o apply).  An Optional value is the    *)
(* record None or Some(v).  A Python dict is a function on its key set.    *)
(***************************************************************************)
EXTENDS Integers, Sequences, FiniteSets, TLC

VARIABLES
    call,       \* call[c]: the frame of scrape_zoopla call c (its arguments, its
                \* locals, where it stands) with the session it drives
    clock,      \* int(time.time()): the wall clock in seconds
    files,      \* the screenshot files written: a set of [path, by]
    fnArg,      \* argument the pure-function specifications draw in Init
    fnRet       \* what the function under check returned (or raised)

vars == << call, clock, files, fnArg, fnRet >>

\* ------------------------------------------------------------------ bounds
MaxLocLen == 3      \* longest location string drawn
MaxPrice == 1       \* prices drawn are 0..MaxPrice
MaxPage == 2        \* pages drawn are 1..MaxPage
MaxCards == 2       \* most cards on a page drawn for parse_search_results
MaxSelectors == 3   \* longest captcha selector list drawn for _looks_like_captcha
MaxItems == 2       \* most items in a JSON array or object drawn as an override
NumCalls == 2       \* call frames; the single-call specification starts call 1
MaxClock == 1       \* seconds the clock of the concurrent specification can advance
MaxRenders == 1     \* times the page of a call can change after it was loaded

\* ------------------------------------------------------------- Python values
None == [some |-> FALSE]
Some(v) == [some |-> TRUE, v |-> v]

CharAt(s, i) == SubSeq(s, i, i)

\* what a function returned, or the exception it raised
Returned(v) == [raised |-> FALSE, v |-> v]
Raised(exc) == [raised |-> TRUE, exc |-> exc]

UpperAlphabet == "ABCDEFGHIJKLMNOPQRSTUVWXYZ"
LowerAlphabet == "abcdefghijklmnopqrstuvwxyz"
Digits == "0123456789"

\* The characters of a string are those of Latin-1 (U+0000..U+00FF).
\* the letters beyond ASCII that have an upper and a lower case, pair by pair
CasedUpper == UpperAlphabet \o "ÀÁÂÃÄÅÆÇÈÉÊËÌÍÎÏÐÑÒÓÔÕÖØÙÚÛÜÝÞ"
CasedLower == LowerAlphabet \o "àáâãäåæçèéêëìíîïðñòóôõöøùúûüýþ"

\* the characters str.isspace() holds for, which are those str.split(),
\* str.strip() and the regex class \s treat as space: tab, line feed, vertical
\* tab, form feed, carriage return, U+001C..U+001F, space, U+0085, U+00A0
Whitespace == " \t\n\r\f "
SpaceChars == {CharAt(Whitespace, i) : i \in 1..Len(Whitespace)}
IsSpace(c) == c \in SpaceChars
IsDigit(c) == \E i \in 1..Len(Digits) : CharAt(Digits, i) = c
DigitVal(c) == (CHOOSE i \in 1..Len(Digits) : CharAt(Digits, i) = c) - 1

\* str.lower() on one character
LowerChar(c) ==
    IF \E i \in 1..Len(CasedUpper) : CharAt(CasedUpper, i) = c
    THEN CharAt(CasedLower, CHOOSE i \in 1..Len(CasedUpper) : CharAt(CasedUpper, i) = c)
    ELSE c

RECURSIVE StrLower(_)
StrLower(s) == IF s = "" THEN "" ELSE LowerChar(CharAt(s, 1)) \o StrLower(Tail(s))

\* str.replace(old, new) for a one-character old
RECURSIVE StrReplaceChar(_, _, _)
StrReplaceChar(s, old, new) ==
    IF s = "" THEN ""
    ELSE (IF CharAt(s, 1) = old THEN new ELSE CharAt(s, 1))
         \o StrReplaceChar(Tail(s), old, new)

\* ------------------------------------------------------- build_search_url
BaseUrl == "https://www.zoopla.co.uk/to-rent/property/"

\* slug = location.lower().replace(" ", "-")
Slug(location) == StrReplaceChar(StrLower(location), " ", "-")

\* the query parameters build_search_url puts after the "?", in the order it
\* appends them: the fixed marker first, then one per `if` that is taken
UrlParams(q) ==
    << [name |-> "search_source", value |-> "to-rent"] >>
    \o (IF q.price_min.some /\ q.price_min.v # 0
        THEN << [name |-> "price_min", value |-> ToString(q.price_min.v)] >> ELSE << >>)
    \o (IF q.price_max.some /\ q.price_max.v # 0
        THEN << [name |-> "price_max", value |-> ToString(q.price_max.v)] >> ELSE << >>)
    \o (IF q.furnished = Some(TRUE)
        THEN << [name |-> "furnished_state", value |-> "furnished"] >>
        ELSE IF q.furnished = Some(FALSE)
        THEN << [name |-> "furnished_state", value |-> "unfurnished"] >>
        ELSE << >>)
    \o (IF q.room_in_shared = Some(TRUE)
        THEN << [name |-> "property_type", value |-> "house-share"] >> ELSE << >>)
    \o (IF q.page # 0 /\ q.page > 1
        THEN << [name |-> "pn", value |-> ToString(q.page)] >> ELSE << >>)

\* "name=value" pieces joined by "&"
RECURSIVE JoinParams(_)
JoinParams(ps) ==
    IF ps = << >> THEN ""
    ELSE Head(ps).name \o "=" \o Head(ps).value
         \o (IF Tail(ps) = << >> THEN "" ELSE "&" \o JoinParams(Tail(ps)))

build_search_url(q) ==
    BaseUrl \o Slug(q.location) \o "/?" \o JoinParams(UrlParams(q))

\* ------------------------------------------------------------ text helpers
\* the regex class [A-Z] under re.I: the ASCII letters
IsAlpha(c) == \E i \in 1..Len(UpperAlphabet) :
                 CharAt(UpperAlphabet, i) = c \/ CharAt(LowerAlphabet, i) = c

\* str.upper() on one character of a postcode match (letters of [A-Z] under
\* re.I, digits, white space)
UpperChar(c) ==
    IF \E i \in 1..Len(CasedLower) : CharAt(CasedLower, i) = c
    THEN CharAt(CasedUpper, CHOOSE i \in 1..Len(CasedLower) : CharAt(CasedLower, i) = c)
    ELSE c

RECURSIVE StrUpper(_)
StrUpper(s) == IF s = "" THEN "" ELSE UpperChar(CharAt(s, 1)) \o StrUpper(Tail(s))

\* str.lstrip(), str.rstrip(), str.strip()
RECURSIVE LStrip(_)
LStrip(s) == IF s # "" /\ IsSpace(CharAt(s, 1)) THEN LStrip(Tail(s)) ELSE s

RECURSIVE RStrip(_)
RStrip(s) ==
    IF s # "" /\ IsSpace(CharAt(s, Len(s))) THEN RStrip(SubSeq(s, 1, Len(s) - 1)) ELSE s

StrStrip(s) == RStrip(LStrip(s))

\* " ".join(s.split()): the words of s, one space between two of them
RECURSIVE JoinSplit(_)
JoinSplit(s) ==
    LET t == LStrip(s)
        wordEnd == CHOOSE n \in 0..Len(t) :
                      /\ \A i \in 1..n : ~IsSpace(CharAt(t, i))
                      /\ (n = Len(t) \/ IsSpace(CharAt(t, n + 1)))
        rest == JoinSplit(SubSeq(t, wordEnd + 1, Len(t)))
    IN IF t = "" THEN ""
       ELSE SubSeq(t, 1, wordEnd) \o (IF rest = "" THEN "" ELSE " " \o rest)

\* str.replace(",", ""): s without the character c
RECURSIVE StrRemoveChar(_, _)
StrRemoveChar(s, c) ==
    IF s = "" THEN ""
    ELSE (IF CharAt(s, 1) = c THEN "" ELSE CharAt(s, 1)) \o StrRemoveChar(Tail(s), c)

\* the value of a non-empty string of decimal digits
RECURSIVE DecimalValue(_)
DecimalValue(s) ==
    IF s = "" THEN 0
    ELSE 10 * DecimalValue(SubSeq(s, 1, Len(s) - 1)) + DigitVal(CharAt(s, Len(s)))

\* -------------------------------------------------------- _parse_price_gbp
\* length of the longest run of characters of `cls` that starts at s[i]
RECURSIVE RunLen(_, _, _)
RunLen(s, i, cls) ==
    IF i <= Len(s) /\ CharAt(s, i) \in cls THEN 1 + RunLen(s, i + 1, cls) ELSE 0

PriceChars == {CharAt(Digits, i) : i \in 1..Len(Digits)} \cup {","}

\* group 1 of re.search(r"£\s*([\d,]+)", text): the leftmost "£" that, after any
\* white space, is followed by at least one digit or comma; None when there is none
PriceGroup(text) ==
    LET GroupStart(p) == p + 1 + RunLen(text, p + 1, SpaceChars)
        Matches(p) == /\ CharAt(text, p) = "£"
                      /\ RunLen(text, GroupStart(p), PriceChars) >= 1
        starts == {p \in 1..Len(text) : Matches(p)}
        first == CHOOSE p \in starts : \A r \in starts : p <= r
    IN IF starts = {} THEN None
       ELSE Some(SubSeq(text, GroupStart(first),
                        GroupStart(first) + RunLen(text, GroupStart(first), PriceChars) - 1))

\* int(m.group(1).replace(",", "")) raises ValueError on the empty string
IntOfEmpty == "invalid literal for int() with base 10: ''"

_parse_price_gbp(text) ==
    IF ~text.some \/ text.v = "" THEN Returned(None)
    ELSE LET m == PriceGroup(text.v)
         IN IF ~m.some THEN Returned(None)
            ELSE LET digits == StrRemoveChar(m.v, ",")
                 IN IF digits = "" THEN Raised(IntOfEmpty)
                    ELSE Returned(Some(DecimalValue(digits)))

\* ------------------------------------------------------- _extract_postcode
\* the regex class \w: the characters str.isalnum() holds for, and "_"
WordCharSet ==
    LET chars == Digits \o CasedUpper \o CasedLower \o "_" \o "ª²³µ¹º¼½¾ßÿ"
    IN {CharAt(chars, i) : i \in 1..Len(chars)}
IsWordChar(c) == c \in WordCharSet

\* the regex assertion \b between s[i-1] and s[i]
WordBoundary(s, i) ==
    LET before == i > 1 /\ IsWordChar(CharAt(s, i - 1))
        after == i <= Len(s) /\ IsWordChar(CharAt(s, i))
    IN before # after

InClass(ch, class) ==
    CASE class = "A-Z" -> IsAlpha(ch)
      [] class = "\\d" -> IsDigit(ch)
      [] class = "\\s" -> IsSpace(ch)

AllIn(s, from, n, class) ==
    \A i \in from..(from + n - 1) : i <= Len(s) /\ InClass(CharAt(s, i), class)

\* the ways [A-Z]{1,2} \d{1,2} [A-Z]? \s? can split, in the order the regex
\* engine tries them (each quantifier greedy): letters, digits, letter, space
PostcodeShapes ==
    << <<2,2,1,1>>, <<2,2,1,0>>, <<2,2,0,1>>, <<2,2,0,0>>,
       <<2,1,1,1>>, <<2,1,1,0>>, <<2,1,0,1>>, <<2,1,0,0>>,
       <<1,2,1,1>>, <<1,2,1,0>>, <<1,2,0,1>>, <<1,2,0,0>>,
       <<1,1,1,1>>, <<1,1,1,0>>, <<1,1,0,1>>, <<1,1,0,0>> >>

PostcodeLen(shape) == shape[1] + shape[2] + shape[3] + shape[4] + 3

PostcodeMatchesAt(s, i, shape) ==
    LET d == i + shape[1]
        o == d + shape[2]
        w == o + shape[3]
        n == w + shape[4]
    IN /\ WordBoundary(s, i)
       /\ AllIn(s, i, shape[1], "A-Z")
       /\ AllIn(s, d, shape[2], "\\d")
       /\ AllIn(s, o, shape[3], "A-Z")
       /\ AllIn(s, w, shape[4], "\\s")
       /\ AllIn(s, n, 1, "\\d")
       /\ AllIn(s, n + 1, 2, "A-Z")
       /\ WordBoundary(s, n + 3)

\* re.search(..., flags=re.I): leftmost start, first shape that matches there
_extract_postcode(address) ==
    IF address = "" THEN None
    ELSE LET hits == {i \in 1..Len(address) :
                         \E k \in 1..Len(PostcodeShapes) :
                             PostcodeMatchesAt(address, i, PostcodeShapes[k])}
             i0 == CHOOSE i \in hits : \A j \in hits : i <= j
             k0 == CHOOSE k \in 1..Len(PostcodeShapes) :
                      /\ PostcodeMatchesAt(address, i0, PostcodeShapes[k])
                      /\ \A j \in 1..(k - 1) : ~PostcodeMatchesAt(address, i0, PostcodeShapes[j])
         IN IF hits = {} THEN None
            ELSE Some(StrUpper(SubSeq(address, i0, i0 + PostcodeLen(PostcodeShapes[k0]) - 1)))

\* -------------------------------------------------------- selector profile
\* JSON / Python values a profile entry can hold
\* (an object keeps its members in file order, as json.loads does)
Str(s) == [t |-> "str", s |-> s]
List(l) == [t |-> "list", l |-> l]
Null == [t |-> "null"]
Num(n) == [t |-> "num", n |-> n]
Obj(pairs) == [t |-> "obj", pairs |-> pairs]

CaptchaSelectors ==
    << "iframe[src*='recaptcha']", "div.g-recaptcha", "iframe[src*='hcaptcha']",
       "text=/verify you are human|unusual traffic|complete the challenge/i" >>

DEFAULT_PROFILE ==
    [card |-> Str("[data-testid='listing-card'], article, li[role='listitem']"),
     title |-> Str("[data-testid='listing-title'], h2, a[aria-label]"),
     price |-> Str("[data-testid='listing-price'], [data-testid='price']"),
     address |-> Str("[data-testid='listing-description'], [data-testid='address'], address, .css-*"),
     link |-> Str("a[href*='/to-rent/'], a[href*='/to-rent/details'], a[href*='/to-rent/property']"),
     summary |-> Str("[data-testid='listing-description'], p, .Text__StyledText"),
     features |-> Str("[data-testid='listing-features'] li, ul li, .features li"),
     image |-> Str("img"),
     captcha |-> List([i \in 1..Len(CaptchaSelectors) |-> Str(CaptchaSelectors[i])]),
     results_container |-> Str("[data-testid='regular-listings'], [data-testid='search-results'], main")]

\* iterating a value (`for sel in selectors`): a list gives its items, a string
\* its characters, an object (a dict) its keys; null or a number raises TypeError
Iterate(v) ==
    IF v.t = "list" THEN Returned(v.l)
    ELSE IF v.t = "str" THEN Returned([i \in 1..Len(v.s) |-> Str(CharAt(v.s, i))])
    ELSE IF v.t = "obj" THEN Returned([i \in 1..Len(v.pairs) |-> Str(v.pairs[i][1])])
    ELSE Raised("TypeError")

\* bool(v) of a parsed JSON value
Truthy(v) ==
    IF v.t = "null" THEN FALSE
    ELSE IF v.t = "num" THEN v.n # 0
    ELSE IF v.t = "str" THEN v.s # ""
    ELSE IF v.t = "list" THEN v.l # << >>
    ELSE v.pairs # << >>

\* d[k] = v.  Keys are strings; a key that is not a string is entered under
\* its printed form, which is no field name.
KeyOf(k) == IF k.t = "str" THEN k.s ELSE ToString(k)
DictSet(d, k, v) == [x \in DOMAIN d \cup {k} |-> IF x = k THEN v ELSE d[x]]

\* dict.update(mapping): every member of the object, in order
RECURSIVE UpdateFromPairs(_, _, _)
UpdateFromPairs(d, pairs, i) ==
    IF i > Len(pairs) THEN d
    ELSE UpdateFromPairs(DictSet(d, pairs[i][1], pairs[i][2]), pairs, i + 1)

\* one element of dict.update(iterable) read as a (key, value) pair: it has to
\* be a sequence of length 2 whose first item is hashable
PairOf(item) ==
    LET it == Iterate(item)
    IN IF it.raised THEN it
       ELSE IF Len(it.v) # 2 THEN Raised("ValueError")
       ELSE IF it.v[1].t \in {"list", "obj"} THEN Raised("TypeError")
       ELSE Returned(<< KeyOf(it.v[1]), it.v[2] >>)

\* dict.update(iterable) from element i on: [d, raised].  The elements before
\* the one that raises have already been stored.
RECURSIVE UpdateFromSeq(_, _, _)
UpdateFromSeq(d, items, i) ==
    IF i > Len(items) THEN [d |-> d, raised |-> FALSE]
    ELSE LET pr == PairOf(items[i])
         IN IF pr.raised THEN [d |-> d, raised |-> TRUE]
            ELSE UpdateFromSeq(DictSet(d, pr.v[1], pr.v[2]), items, i + 1)

\* profile.update(override or {}): the dict afterwards, whether or not it raised
DictUpdate(d, override) ==
    IF ~Truthy(override) THEN d
    ELSE IF override.t = "obj" THEN UpdateFromPairs(d, override.pairs, 1)
    ELSE IF override.t = "num" THEN d
    ELSE UpdateFromSeq(d, Iterate(override).v, 1).d

\* The override source of a call: no path given, a path to no file, a path
\* whose stat raises (a file name too long), a file whose read raises, a file
\* json.loads rejects, or a file holding JSON value v.
NoPath == [kind |-> "nopath"]
MissingFile == [kind |-> "missing"]
UnstatablePath == [kind |-> "unstatable"]
UnreadableFile == [kind |-> "unreadable"]
BadJson == [kind |-> "badjson"]
JsonFile(v) == [kind |-> "json", v |-> v]

\* lines 243-249, the profile scrape_zoopla works with: a copy of the default,
\* updated from the override when it loads.  Path(...).exists() at line 244 is
\* outside the try, so what it raises (OSError: file name too long) leaves the
\* call; an exception of the read,
\* of json.loads or of the update is passed over.
LoadProfile(source) ==
    IF source.kind = "unstatable" THEN Raised("[Errno 36] File name too long")
    ELSE IF source.kind = "json" THEN Returned(DictUpdate(DEFAULT_PROFILE, source.v))
    ELSE Returned(DEFAULT_PROFILE)

\* ------------------------------------------------------------ the rendered DOM
\* A node is [text, attrs, detached]: attrs is a sequence of <<name, value>> and
\* reading a detached node raises.  A page or a card is [find]: a sequence of
\* <<selector, [fault, els]>> saying what a locator for that selector gives:
\* count() raises when fault, and is Len(els) otherwise.  A selector with no
\* entry matches nothing.
Node(text, attrs) == [text |-> text, attrs |-> attrs, detached |-> FALSE]
DetachedNode == [text |-> "", attrs |-> << >>, detached |-> TRUE]
Found(els) == [fault |-> FALSE, els |-> els]
LocatorFault == [fault |-> TRUE, els |-> << >>]
BlankPage == [find |-> << >>]

\* the value paired with key in a sequence of <<key, value>>, first entry first
Lookup(pairs, key) ==
    LET hits == {i \in 1..Len(pairs) : pairs[i][1] = key}
    IN IF hits = {} THEN None
       ELSE Some(pairs[CHOOSE i \in hits : \A j \in hits : i <= j][2])

\* root.locator(selector), with the count() that follows it; a selector that is
\* not a string is refused when the locator is first used, and under a closed
\* root (see ClosedRoot) every locator raises
Locate(root, selector) ==
    IF selector.t # "str" \/ "closed" \in DOMAIN root THEN LocatorFault
    ELSE IF Lookup(root.find, selector.s).some THEN Lookup(root.find, selector.s).v
    ELSE Found(<< >>)

\* ------------------------------------------------------ _looks_like_captcha
\* _looks_like_captcha(page, selectors) at selector i, one await at a time:
\* `await loc.count()` for selector i (line 117), read off the page as it is
\* when the await completes.  "fired": return True; "next": the loop goes on to
\* selector i + 1; "clear": return False, because the count raised, the loop
\* ended, or (without an await) there is nothing to go through or the value
\* cannot be iterated.
CaptchaStep(page, selectors, i) ==
    LET it == Iterate(selectors)
    IN IF it.raised THEN "clear"
       ELSE IF i > Len(it.v) THEN "clear"
       ELSE LET loc == Locate(page, it.v[i])
            IN IF loc.fault THEN "clear"
               ELSE IF Len(loc.els) > 0 THEN "fired"
               ELSE IF i < Len(it.v) THEN "next"
               ELSE "clear"

\* ------------------------------------------------------ _get_text, _get_attr
\* `await loc.count() == 0` (lines 131, 142) has not returned None: the count
\* did not raise and is not 0
HasFirst(el, selector) ==
    LET loc == Locate(el, selector)
    IN ~loc.fault /\ Len(loc.els) > 0

\* element k under the selector, for a read of it: none when the locator
\* raises, when there is no such element or when the element is detached
ElementAt(el, selector, k) ==
    LET loc == Locate(el, selector)
    IN IF loc.fault \/ k > Len(loc.els) THEN None
       ELSE IF loc.els[k].detached THEN None
       ELSE Some(loc.els[k])

\* lines 133-134: `(await loc.inner_text()).strip()`, joined on single spaces;
\* None when the read raises
FirstText(el, selector) ==
    LET first == ElementAt(el, selector, 1)
    IN IF first.some THEN Some(JoinSplit(StrStrip(first.v.text))) ELSE None

\* line 144: `await loc.get_attribute(attr)`; None when the read raises
FirstAttr(el, selector, attr) ==
    LET first == ElementAt(el, selector, 1)
    IN IF first.some THEN Lookup(first.v.attrs, attr) ELSE None

\* the two awaits of each function over an element that stays as it is
_get_text(el, selector) ==
    IF HasFirst(el, selector) THEN FirstText(el, selector) ELSE None

_get_attr(el, selector, attr) ==
    IF HasFirst(el, selector) THEN FirstAttr(el, selector, attr) ELSE None

\* Python's `x or ""` for an Optional[str]
OrEmpty(o) == IF o.some /\ o.v # "" THEN o.v ELSE ""

\* ------------------------------------------------------ parse_search_results
FeatureCap == 8

Min(a, b) == IF a < b THEN a ELSE b

NormalizeUrl(url) ==
    IF url # "" /\ CharAt(url, 1) = "/" THEN "https://www.zoopla.co.uk" \o url ELSE url

CountFailed == "Locator.count: Target closed"

\* a root under which every locator raises (its page or its parent is gone)
ClosedRoot == [find |-> << >>, closed |-> TRUE]

\* cards.nth(i) on the page as it is now: the card, nothing when the page has
\* fewer cards (a count under it is 0, a read raises), or a closed root
CardAt(page, profile, i) ==
    LET cards == Locate(page, profile["card"])
    IN IF cards.fault THEN ClosedRoot
       ELSE IF i > Len(cards.els) THEN BlankPage
       ELSE cards.els[i]

\* The course of parse_search_results, one await at a time.  `at` is the await
\* the function stands before: "cards" (line 175), a field of card i ("title",
\* "price", "address", "link", "summary", "image": its count() when `first` is
\* false, the read of its first element when `first` is true), "features" (the
\* count of line 190), "feature" (the read of feature j, line 192), or where
\* the function ended: "returned", "raised".  count is the result of line 175,
\* fcount the bound of the feature loop.  price holds what
\* _parse_price_gbp(price_txt) gives at line 199: nothing else uses price_txt.
ParseStart ==
    [at |-> "cards", first |-> FALSE, i |-> 0, count |-> 0, j |-> 0, fcount |-> 0,
     title |-> "", price |-> Returned(None), address |-> "", url |-> "",
     summary |-> None, image |-> None, features |-> << >>,
     listings |-> << >>, exc |-> ""]

\* the await after the reads of field `at`: the next field in the order of
\* lines 178-185, then the features
AfterField(at) ==
    LET order == << "title", "price", "address", "link", "summary", "image" >>
        k == CHOOSE n \in 1..Len(order) : order[n] = at
    IN IF k < Len(order) THEN order[k + 1] ELSE "features"

\* lines 178-185: the local of field ps.at is bound to what _get_text or
\* _get_attr returned, and the function goes on to the next await
FieldRead(ps, value) ==
    LET next == [ps EXCEPT !.at = AfterField(ps.at), !.first = FALSE]
    IN CASE ps.at = "title" -> [next EXCEPT !.title = OrEmpty(value)]
         [] ps.at = "price" -> [next EXCEPT !.price = _parse_price_gbp(value)]
         [] ps.at = "address" -> [next EXCEPT !.address = OrEmpty(value)]
         [] ps.at = "link" -> [next EXCEPT !.url = NormalizeUrl(OrEmpty(value))]
         [] ps.at = "summary" -> [next EXCEPT !.summary = value]
         [] ps.at = "image" -> [next EXCEPT !.image = value]

\* lines 198-209: the Listing of card i is appended (int() of line 157 may
\* raise here), and the card loop goes on or ends
CardDone(ps) ==
    IF ps.price.raised THEN [ps EXCEPT !.at = "raised", !.exc = ps.price.exc]
    ELSE LET listing == [title |-> ps.title, price_gbp |-> ps.price.v,
                         address |-> ps.address,
                         postcode |-> _extract_postcode(ps.address), url |-> ps.url,
                         summary |-> ps.summary, features |-> ps.features,
                         image |-> ps.image, source |-> "zoopla"]
             kept == [ParseStart EXCEPT !.count = ps.count,
                                        !.listings = Append(ps.listings, listing)]
         IN IF ps.i < ps.count
            THEN [kept EXCEPT !.at = "title", !.i = ps.i + 1]
            ELSE [kept EXCEPT !.at = "returned", !.i = ps.i]

\* one await of parse_search_results completes on the page as it is now
ParseStep(ps, page, profile) ==
    LET el == CardAt(page, profile, ps.i)
    IN CASE ps.at = "cards" ->
              LET cards == Locate(page, profile["card"])
              IN IF cards.fault THEN [ps EXCEPT !.at = "raised", !.exc = CountFailed]
                 ELSE IF Len(cards.els) = 0 THEN [ps EXCEPT !.at = "returned"]
                 ELSE [ps EXCEPT !.at = "title", !.i = 1, !.count = Len(cards.els)]
         [] ps.at \in {"title", "price", "address", "summary"} ->
              IF ps.first THEN FieldRead(ps, FirstText(el, profile[ps.at]))
              ELSE IF HasFirst(el, profile[ps.at]) THEN [ps EXCEPT !.first = TRUE]
              ELSE FieldRead(ps, None)
         [] ps.at = "link" ->
              IF ps.first THEN FieldRead(ps, FirstAttr(el, profile["link"], "href"))
              ELSE IF HasFirst(el, profile["link"]) THEN [ps EXCEPT !.first = TRUE]
              ELSE FieldRead(ps, None)
         [] ps.at = "image" ->
              IF ps.first THEN FieldRead(ps, FirstAttr(el, profile["image"], "src"))
              ELSE IF HasFirst(el, profile["image"]) THEN [ps EXCEPT !.first = TRUE]
              ELSE FieldRead(ps, None)
         [] ps.at = "features" ->
              LET feats == Locate(el, profile["features"])
              IN IF feats.fault \/ Len(feats.els) = 0 THEN CardDone(ps)
                 ELSE [ps EXCEPT !.at = "feature", !.j = 1,
                                 !.fcount = Min(Len(feats.els), FeatureCap)]
         [] ps.at = "feature" ->
              LET item == ElementAt(el, profile["features"], ps.j)
              IN IF ~item.some THEN CardDone(ps)
                 ELSE LET tx == StrStrip(item.v.text)
                          read == IF tx # "" THEN [ps EXCEPT !.features = Append(@, JoinSplit(tx))]
                                  ELSE ps
                      IN IF ps.j < ps.fcount THEN [read EXCEPT !.j = ps.j + 1]
                         ELSE CardDone(read)
         [] OTHER -> ps

\* what parse_search_results gave once it has ended
ParseResult(ps) ==
    IF ps.at = "raised" THEN Raised(ps.exc) ELSE Returned(ps.listings)

\* ============================================================ scrape_zoopla
\* A step of a call is the code up to the completion of one await (a few steps
\* have no await in them): at each await the event loop may run the other calls,
\* the clock may move on and the page on show may change.
CallIds == 1..NumCalls

NoResult == [status |-> "none"]

\* the pages a navigation of the call specification can land on, by name; a
\* frame holds the name of the page it loaded
Pages == {"listings", "empty", "comma_price", "broken", "captcha", "masked_captcha"}

\* the frame of a call that has not run a statement yet.  site is the set of
\* pages the site may answer the call's navigation with, dom the page the
\* browser shows now and renders how often it has changed since it was loaded;
\* driver is the Playwright driver that `async with async_playwright()` starts
\* and stops;  log lists the calls awaited on the browser, its context and its
\* page, and the helper coroutines entered; waited is how the results-container
\* wait ended ("appeared", "timeout"); sel is the captcha selector the guardrail
\* stands at and guard what it returned ("fired", "clear"); parsing is where
\* parse_search_results stands; shooting holds while page_obj.screenshot is
\* awaited; exc is str(e) of the exception the handler caught.  At pc = "aexit" the call is leaving the `async with` block: raised is
\* the exception on its way out, or, when there is none, result is the value of
\* the return statement.  At pc = "raised" raised is the exception that left the
\* call, at pc = "returned" result is what the caller got.
Frame(location_query, take_screenshot, source, pc) ==
    [pc |-> pc, query |-> location_query, take_screenshot |-> take_screenshot,
     source |-> source, profile |-> DEFAULT_PROFILE, url |-> "",
     screenshot_path |-> None, shooting |-> FALSE, driver |-> "none",
     browser |-> "none",
     context |-> "none", page_obj |-> FALSE, site |-> Pages, dom |-> "",
     renders |-> 0, waited |-> "", sel |-> 1, guard |-> "", parsing |-> ParseStart,
     log |-> << >>, listings |-> << >>, exc |-> "", raised |-> "",
     result |-> NoResult]

\* `except Exception as e` takes over; the exception leaves scrape_zoopla
\* before the `async with` block is entered; the exception, or the return
\* value, leaves the block through __aexit__
Caught(f, e) == [f EXCEPT !.pc = "except", !.exc = e]
Escaped(f, e) == [f EXCEPT !.pc = "raised", !.raised = e]
Leaving(f, e) == [f EXCEPT !.pc = "aexit", !.raised = e]
Returning(f, result) == [f EXCEPT !.pc = "aexit", !.result = result]
Logged(f, what) == [f EXCEPT !.log = Append(@, what)]

ScreenshotPath(kind, now) == "zoopla_" \o kind \o "_" \o ToString(now) \o ".png"

\* lines 243-260: the profile, the URL, screenshot_path = None
Enter(c) ==
    /\ call[c].pc = "new"
    /\ LET loaded == LoadProfile(call[c].source)
       IN call' = [call EXCEPT ![c] =
                     IF loaded.raised THEN Escaped(@, loaded.exc)
                     ELSE [@ EXCEPT !.profile = loaded.v,
                                    !.url = build_search_url(call[c].query),
                                    !.screenshot_path = None,
                                    !.pc = "aenter"]]
    /\ UNCHANGED << clock, files, fnArg, fnRet >>

\* line 262: `async with async_playwright() as pw` awaits __aenter__, which
\* starts the driver; when it raises, the block is not entered and __aexit__ is
\* not run
AEnter(c) ==
    /\ call[c].pc = "aenter"
    /\ \/ call' = [call EXCEPT ![c] = [@ EXCEPT !.driver = "started", !.pc = "launch"]]
       \/ call' = [call EXCEPT ![c] = Escaped(@, "__aenter__ failed")]
    /\ UNCHANGED << clock, files, fnArg, fnRet >>

\* the end of the `async with` block of line 262: __aexit__ is awaited on every
\* way out of the block, stops the driver and lets the exception or the return
\* value through; when __aexit__ itself raises, its exception leaves the call
\* instead
AExit(c) ==
    /\ call[c].pc = "aexit"
    /\ \/ call' = [call EXCEPT ![c] =
                     [@ EXCEPT !.driver = "stopped",
                               !.pc = IF call[c].raised # "" THEN "raised" ELSE "returned"]]
       \/ call' = [call EXCEPT ![c] =
                     [@ EXCEPT !.pc = "raised", !.raised = "__aexit__ failed",
                               !.result = NoResult]]
    /\ UNCHANGED << clock, files, fnArg, fnRet >>

\* lines 263-266: chromium.launch, outside the try
Launch(c) ==
    /\ call[c].pc = "launch"
    /\ \/ call' = [call EXCEPT ![c] =
                     [Logged(@, "launch") EXCEPT !.browser = "open", !.pc = "new_context"]]
       \/ call' = [call EXCEPT ![c] = Leaving(Logged(@, "launch"), "launch failed")]
    /\ UNCHANGED << clock, files, fnArg, fnRet >>

\* lines 267-274: browser.new_context, outside the try
NewContext(c) ==
    /\ call[c].pc = "new_context"
    /\ \/ call' = [call EXCEPT ![c] =
                     [Logged(@, "new_context") EXCEPT !.context = "open", !.pc = "new_page"]]
       \/ call' = [call EXCEPT ![c] = Leaving(Logged(@, "new_context"), "new_context failed")]
    /\ UNCHANGED << clock, files, fnArg, fnRet >>

\* line 275: context.new_page, outside the try
NewPage(c) ==
    /\ call[c].pc = "new_page"
    /\ \/ call' = [call EXCEPT ![c] =
                     [Logged(@, "new_page") EXCEPT !.page_obj = TRUE, !.pc = "goto"]]
       \/ call' = [call EXCEPT ![c] = Leaving(Logged(@, "new_page"), "new_page failed")]
    /\ UNCHANGED << clock, files, fnArg, fnRet >>

\* ------------------------------------------------------------ pages drawn
TextNode(text) == Node(text, << >>)
AttrNode(name, value) == Node("", << <<name, value>> >>)

\* a card whose markup answers the default selectors
Card(title, price, address, link, features) ==
    [find |-> << <<DEFAULT_PROFILE.title.s, title>>,
                 <<DEFAULT_PROFILE.price.s, price>>,
                 <<DEFAULT_PROFILE.address.s, address>>,
                 <<DEFAULT_PROFILE.link.s, link>>,
                 <<DEFAULT_PROFILE.summary.s, Found(<< TextNode("Bills  included") >>)>>,
                 <<DEFAULT_PROFILE.image.s, Found(<< AttrNode("src", "https://img/1.jpg") >>)>>,
                 <<DEFAULT_PROFILE.features.s, features>> >>]

\* (the title is broken over two lines, CR LF; the first price of PriceReads
\* has a no-break space, U+00A0, after the pound sign)
TitleRead == Found(<< TextNode("  Double \r\n room ") >>)
AddressRead == Found(<< TextNode("12 High St, Reading RG1 2AB") >>)
FeaturesRead == Found(<< TextNode(" 1 bed "), TextNode("  "), DetachedNode, TextNode("garden") >>)
Absent == Found(<< >>)

PriceReads ==
    << Absent, LocatorFault, Found(<< DetachedNode >>),
     Found(<< TextNode("£ 795 pcm") >>), Found(<< TextNode(" £1,200  pw") >>),
     Found(<< TextNode("POA") >>), Found(<< TextNode("£,") >>) >>

LinkReads ==
    << Absent, Found(<< TextNode("no href") >>),
       Found(<< AttrNode("href", "/to-rent/details/123") >>),
       Found(<< AttrNode("href", "https://www.zoopla.co.uk/to-rent/details/9") >>) >>

\* a page: its cards under the default card selector, and what each default
\* captcha selector finds (captcha[i] for CaptchaSelectors[i])
PageOf(cards, captcha) ==
    [find |-> << <<DEFAULT_PROFILE.card.s, cards>> >>
              \o [i \in 1..Len(CaptchaSelectors) |-> <<CaptchaSelectors[i], captcha[i]>>]]

NoCaptcha == [i \in 1..Len(CaptchaSelectors) |-> Absent]
Challenge == Found(<< TextNode("verify you are human") >>)

GoodCard == Card(TitleRead, Found(<< TextNode("£795 pcm") >>), AddressRead,
                 Found(<< AttrNode("href", "/to-rent/details/123") >>), FeaturesRead)

\* the pages of Pages.  "listings": a full card, a card without a price, a card
\* without a link or features; "comma_price": its second card has the price
\* text "£,"; "broken": the count of the cards raises; "captcha": the second
\* captcha selector matches; "masked_captcha": the first captcha selector
\* raises and the third matches
Dom(name) ==
    CASE name = "listings" ->
            PageOf(Found(<< GoodCard,
                            Card(TitleRead, Absent, AddressRead,
                                 Found(<< AttrNode("href", "https://www.zoopla.co.uk/to-rent/details/9") >>),
                                 FeaturesRead),
                            Card(TitleRead, Found(<< TextNode(" £1,200  pw") >>),
                                 AddressRead, Absent, Absent) >>),
                   NoCaptcha)
      [] name = "empty" -> PageOf(Absent, NoCaptcha)
      [] name = "comma_price" ->
            PageOf(Found(<< GoodCard,
                            Card(TitleRead, Found(<< TextNode("£,") >>),
                                 AddressRead, Absent, Absent) >>),
                   NoCaptcha)
      [] name = "broken" -> PageOf(LocatorFault, NoCaptcha)
      [] name = "captcha" ->
            PageOf(Found(<< GoodCard >>), [NoCaptcha EXCEPT ![2] = Challenge])
      [] name = "masked_captcha" ->
            PageOf(Found(<< GoodCard >>),
                   [NoCaptcha EXCEPT ![1] = LocatorFault, ![3] = Challenge])
      [] OTHER -> BlankPage

\* ------------------------------------------------------------ the try block
GotoTimeout == "Page.goto: Timeout exceeded"
GotoFailed == "Page.goto: net::ERR_FAILED"

\* line 278, page_obj.goto(url, timeout=timeout_ms): a page is loaded, the
\* timeout is exceeded, or the navigation fails
Goto(c) ==
    /\ call[c].pc = "goto"
    /\ \/ \E dom \in call[c].site :
             call' = [call EXCEPT ![c] =
                        [Logged(@, "goto") EXCEPT !.dom = dom, !.pc = "wait"]]
       \/ call' = [call EXCEPT ![c] = Caught(Logged(@, "goto"), GotoTimeout)]
       \/ call' = [call EXCEPT ![c] = Caught(Logged(@, "goto"), GotoFailed)]
    /\ UNCHANGED << clock, files, fnArg, fnRet >>

BadSelector == "Page.wait_for_selector: selector: expected string"
WaitFailed == "Page.wait_for_selector: Target closed"

\* WaitForResults with the `except PWTimeoutError: pass` left out: the timeout
\* of the wait goes to the handler like any other exception
WaitForResults_TimeoutFatal(c) ==
    /\ call[c].pc = "wait"
    /\ LET container == call[c].profile["results_container"]
       IN IF ~Truthy(container)
          THEN call' = [call EXCEPT ![c].pc = "guard"]
          ELSE IF container.t # "str"
          THEN call' = [call EXCEPT ![c] =
                          Caught(Logged(@, "wait_for_selector"), BadSelector)]
          ELSE \/ call' = [call EXCEPT ![c] =
                             [Logged(@, "wait_for_selector")
                                 EXCEPT !.waited = "appeared", !.pc = "guard"]]
               \/ call' = [call EXCEPT ![c] =
                             Caught([Logged(@, "wait_for_selector") EXCEPT !.waited = "timeout"],
                                    "Page.wait_for_selector: Timeout exceeded")]
               \/ call' = [call EXCEPT ![c] =
                             Caught(Logged(@, "wait_for_selector"), WaitFailed)]
    /\ UNCHANGED << clock, files, fnArg, fnRet >>

\* lines 281-285: the wait for the results container; PWTimeoutError is passed
\* over, any other exception goes to the handler
WaitForResults(c) ==
    /\ call[c].pc = "wait"
    /\ LET container == call[c].profile["results_container"]
       IN IF ~Truthy(container)
          THEN call' = [call EXCEPT ![c].pc = "guard"]
          ELSE IF container.t # "str"
          THEN call' = [call EXCEPT ![c] =
                          Caught(Logged(@, "wait_for_selector"), BadSelector)]
          ELSE \/ call' = [call EXCEPT ![c] =
                             [Logged(@, "wait_for_selector")
                                 EXCEPT !.waited = "appeared", !.pc = "guard"]]
               \/ call' = [call EXCEPT ![c] =
                             [Logged(@, "wait_for_selector")
                                 EXCEPT !.waited = "timeout", !.pc = "guard"]]
               \/ call' = [call EXCEPT ![c] =
                             Caught(Logged(@, "wait_for_selector"), WaitFailed)]
    /\ UNCHANGED << clock, files, fnArg, fnRet >>

\* the pages a page on show can turn into while the call works on it: the
\* results go away, or a challenge takes the place of the page
Rerenders(name) ==
    CASE name = "listings" -> {"captcha", "empty"}
      [] name = "empty" -> {"captcha"}
      [] OTHER -> {}

\* the page on show changes under the call, between two of its awaits; the
\* changes are followed from the first read of the page (the guardrail) to the
\* last (the end of the extraction)
PageChanges(c) ==
    /\ call[c].pc \in {"guard", "delay", "parse"}
    /\ call[c].renders < MaxRenders
    /\ \E dom \in Rerenders(call[c].dom) \cap call[c].site :
          call' = [call EXCEPT ![c] = [@ EXCEPT !.dom = dom, !.renders = @ + 1]]
    /\ UNCHANGED << clock, files, fnArg, fnRet >>

\* line 288, `await _looks_like_captcha(page_obj, profile.get("captcha", []))`:
\* one step for each `await loc.count()` of the function (line 117), on the page
\* as it is at that await; with no selector to go through (or nothing that can
\* be iterated) the function returns False without an await
Guardrail(c) ==
    /\ call[c].pc = "guard"
    /\ LET f == IF call[c].sel = 1 THEN Logged(call[c], "_looks_like_captcha") ELSE call[c]
           out == CaptchaStep(Dom(call[c].dom), call[c].profile["captcha"], call[c].sel)
       IN call' = [call EXCEPT ![c] =
                     CASE out = "fired" -> [f EXCEPT !.guard = "fired", !.pc = "captcha_shot"]
                       [] out = "clear" -> [f EXCEPT !.guard = "clear", !.pc = "delay"]
                       [] out = "next" -> [f EXCEPT !.sel = @ + 1]]
    /\ UNCHANGED << clock, files, fnArg, fnRet >>

\* what becomes of a frame when an awaited call raises: inside the try (lines
\* 277-312) the handler takes over; inside the handler's own try (lines 316-320)
\* the exception is passed; in the handler itself it leaves the `async with`
\* block and, through __aexit__, the call
Handle(f, where) ==
    CASE where = "try" -> Caught(f, "Error in try block")
      [] where = "except" -> Leaving(f, "Error in except block")
      [] where = "except/try" -> [f EXCEPT !.pc = "except_context_close"]

\* the screenshot of kind `kind` (lines 289-291, 300-302, 316-318): nothing when
\* take_screenshot is false.  Else, first, screenshot_path is assigned from the
\* clock as it is then (no await); then the await of page_obj.screenshot
\* completes: the file is written at that path, or the call raises
Screenshot(c, kind, next, where) ==
    IF ~call[c].take_screenshot
    THEN /\ call' = [call EXCEPT ![c].pc = next]
         /\ UNCHANGED files
    ELSE IF ~call[c].shooting
    THEN /\ call' = [call EXCEPT ![c] =
                       [@ EXCEPT !.screenshot_path = Some(ScreenshotPath(kind, clock)),
                                 !.shooting = TRUE]]
         /\ UNCHANGED files
    ELSE LET f == [Logged(call[c], "screenshot") EXCEPT !.shooting = FALSE]
         IN \/ /\ call' = [call EXCEPT ![c] = [f EXCEPT !.pc = next]]
               /\ files' = files \cup {[path |-> call[c].screenshot_path.v, by |-> c]}
            \/ /\ call' = [call EXCEPT ![c] = Handle(f, where)]
               /\ UNCHANGED files

\* context.close(): the context is closed, or the call raises
ContextClose(c, next, where) ==
    \/ call' = [call EXCEPT ![c] =
                  [Logged(@, "context.close") EXCEPT !.context = "closed", !.pc = next]]
    \/ call' = [call EXCEPT ![c] = Handle(Logged(@, "context.close"), where)]

\* browser.close(): the browser is closed and the return statement that
\* follows leaves the `async with` block with `result`, or the call raises
BrowserClose(c, result, where) ==
    \/ call' = [call EXCEPT ![c] =
                  Returning([Logged(@, "browser.close") EXCEPT !.browser = "closed"], result)]
    \/ call' = [call EXCEPT ![c] = Handle(Logged(@, "browser.close"), where)]

\* lines 289-294: the captcha exit
CaptchaScreenshot(c) ==
    /\ call[c].pc = "captcha_shot"
    /\ Screenshot(c, "captcha", "captcha_context_close", "try")
    /\ UNCHANGED << clock, fnArg, fnRet >>

CaptchaContextClose(c) ==
    /\ call[c].pc = "captcha_context_close"
    /\ ContextClose(c, "captcha_browser_close", "try")
    /\ UNCHANGED << clock, files, fnArg, fnRet >>

CaptchaBrowserClose(c) ==
    /\ call[c].pc = "captcha_browser_close"
    /\ BrowserClose(c, [status |-> "captcha", url |-> call[c].url, count |-> 0,
                        listings |-> << >>, screenshot |-> call[c].screenshot_path], "try")
    /\ UNCHANGED << clock, files, fnArg, fnRet >>

\* PoliteDelay with the delay left out: extraction follows the guardrail at once
PoliteDelay_Skipped(c) ==
    /\ call[c].pc = "delay"
    /\ call' = [call EXCEPT ![c].pc = "parse"]
    /\ UNCHANGED << clock, files, fnArg, fnRet >>

\* line 296
PoliteDelay(c) ==
    /\ call[c].pc = "delay"
    /\ call' = [call EXCEPT ![c] = [Logged(@, "_polite_delay") EXCEPT !.pc = "parse"]]
    /\ UNCHANGED << clock, files, fnArg, fnRet >>

\* line 298, `await parse_search_results(page_obj, profile)`: one step for each
\* await of the function, on the page as it is at that await
Parse(c) ==
    /\ call[c].pc = "parse"
    /\ LET ps == ParseStep(call[c].parsing, Dom(call[c].dom), call[c].profile)
           f == [(IF call[c].parsing.at = "cards"
                  THEN Logged(call[c], "parse_search_results") ELSE call[c])
                    EXCEPT !.parsing = ps]
       IN call' = [call EXCEPT ![c] =
                     CASE ps.at = "raised" -> Caught(f, ps.exc)
                       [] ps.at = "returned" ->
                            [f EXCEPT !.listings = ps.listings, !.pc = "ok_shot"]
                       [] OTHER -> f]
    /\ UNCHANGED << clock, files, fnArg, fnRet >>

\* lines 300-312: the normal exit
OkScreenshot(c) ==
    /\ call[c].pc = "ok_shot"
    /\ Screenshot(c, "srp", "ok_context_close", "try")
    /\ UNCHANGED << clock, fnArg, fnRet >>

OkContextClose(c) ==
    /\ call[c].pc = "ok_context_close"
    /\ ContextClose(c, "ok_browser_close", "try")
    /\ UNCHANGED << clock, files, fnArg, fnRet >>

\* OkBrowserClose with count left at 0, as in the other two results
OkBrowserClose_CountZero(c) ==
    /\ call[c].pc = "ok_browser_close"
    /\ BrowserClose(c, [status |-> "ok", url |-> call[c].url,
                        count |-> 0, listings |-> call[c].listings,
                        screenshot |-> call[c].screenshot_path], "try")
    /\ UNCHANGED << clock, files, fnArg, fnRet >>

OkBrowserClose(c) ==
    /\ call[c].pc = "ok_browser_close"
    /\ BrowserClose(c, [status |-> "ok", url |-> call[c].url,
                        count |-> Len(call[c].listings), listings |-> call[c].listings,
                        screenshot |-> call[c].screenshot_path], "try")
    /\ UNCHANGED << clock, files, fnArg, fnRet >>

\* lines 314-323: the handler.  Its screenshot is in a try of its own; its two
\* closes are not.
ExceptScreenshot(c) ==
    /\ call[c].pc = "except"
    /\ Screenshot(c, "error", "except_context_close", "except/try")
    /\ UNCHANGED << clock, fnArg, fnRet >>

ExceptContextClose(c) ==
    /\ call[c].pc = "except_context_close"
    /\ ContextClose(c, "except_browser_close", "except")
    /\ UNCHANGED << clock, files, fnArg, fnRet >>

ExceptBrowserClose(c) ==
    /\ call[c].pc = "except_browser_close"
    /\ BrowserClose(c, [status |-> "error", url |-> call[c].url, count |-> 0,
                        listings |-> << >>, note |-> call[c].exc,
                        screenshot |-> call[c].screenshot_path], "except")
    /\ UNCHANGED << clock, files, fnArg, fnRet >>

\* one step of call c
Step(c) ==
    \/ Enter(c) \/ AEnter(c) \/ Launch(c) \/ NewContext(c) \/ NewPage(c)
    \/ Goto(c) \/ WaitForResults(c) \/ Guardrail(c)
    \/ CaptchaScreenshot(c) \/ CaptchaContextClose(c) \/ CaptchaBrowserClose(c)
    \/ PoliteDelay(c) \/ Parse(c)
    \/ OkScreenshot(c) \/ OkContextClose(c) \/ OkBrowserClose(c)
    \/ ExceptScreenshot(c) \/ ExceptContextClose(c) \/ ExceptBrowserClose(c)
    \/ AExit(c)

\* ------------------------------------------------- the call specification
ExampleQuery ==
    [location |-> "Reading RG2", price_min |-> None, price_max |-> Some(800),
     furnished |-> Some(TRUE), room_in_shared |-> Some(TRUE), page |-> 1]

\* override sources drawn: none, a path whose stat raises, a file that does not
\* parse, an object that replaces the card selector, one that makes
\* results_container a list, one that makes captcha an object keyed by a
\* selector, and an array that sets results_container to null before its
\* second item stops the update
Sources ==
    {NoPath, UnstatablePath, BadJson,
     JsonFile(Obj(<< <<"captcha", Obj(<< <<"div.g-recaptcha", Num(1)>> >>)>> >>)),
     JsonFile(Obj(<< <<"card", Str("div.card")>> >>)),
     JsonFile(Obj(<< <<"results_container", List(<< Str("main") >>)>> >>)),
     JsonFile(List(<< List(<< Str("results_container"), Null >>), Num(5) >>))}

\* a frame no call runs in
Idle == [pc |-> "off"]
NotCalled == [done |-> FALSE]

Init ==
    /\ \E shot \in BOOLEAN, source \in Sources :
          call = [c \in CallIds |->
                    IF c = 1 THEN Frame(ExampleQuery, shot, source, "new") ELSE Idle]
    /\ clock = 0
    /\ files = {}
    /\ fnArg = << >>
    /\ fnRet = NotCalled

Next == \E c \in CallIds : Step(c) \/ PageChanges(c)

Spec == Init /\ [][Next]_vars

\* ------------------------------------------- calls in flight at once
\* Every frame runs a call, each with take_screenshot on; the first call has an
\* override file, the others none.  The steps of the calls interleave (each
\* await is a point where the event loop may run another call), and the clock
\* that time.time() reads moves on between steps.
CardOverride == JsonFile(Obj(<< <<"card", Str("div.card")>> >>))

\* the pages the site answers with while calls run side by side: listings to
\* the first call, no results or a challenge to the others
BusySite(c) == IF c = 1 THEN {"listings"} ELSE {"empty", "captcha"}

InitConcurrent ==
    /\ call = [c \in CallIds |->
                [Frame(ExampleQuery, TRUE, IF c = 1 THEN CardOverride ELSE NoPath, "new")
                    EXCEPT !.site = BusySite(c)]]
    /\ clock = 0
    /\ files = {}
    /\ fnArg = << >>
    /\ fnRet = NotCalled

\* a second passes: int(time.time()) is one more
Tick ==
    /\ clock < MaxClock
    /\ clock' = clock + 1
    /\ UNCHANGED << call, files, fnArg, fnRet >>

NextConcurrent == Tick \/ \E c \in CallIds : Step(c) \/ PageChanges(c)

SpecConcurrent == InitConcurrent /\ [][NextConcurrent]_vars

\* ==================================================== the functions alone
\* Each specification below draws an argument in its Init and runs one function
\* on it, the frames of scrape_zoopla staying idle: a function without an await
\* in one action, the call; a coroutine in one step for each of its awaits.
IdleCalls ==
    /\ call = [c \in CallIds |-> Idle]
    /\ clock = 0
    /\ files = {}

SeqsUpTo(S, n) == UNION {[1..k -> S] : k \in 0..n}

\* A state holds ASCII text only (TLC's state queue does not keep the other
\* characters of a string it stores).  An argument with other text in it is
\* drawn as positions in an alphabet or in a pool of reads, and spelled out where
\* the function is called.

\* ------------------------------------------------------- build_search_url
\* a location is drawn as the positions of its characters in LocAlphabet
LocAlphabet == "RÉ \t-"
Locations == SeqsUpTo(1..Len(LocAlphabet), MaxLocLen)

RECURSIVE Spell(_)
Spell(positions) ==
    IF positions = << >> THEN ""
    ELSE CharAt(LocAlphabet, Head(positions)) \o Spell(Tail(positions))

\* the keyword arguments of the call drawn
QueryOf(drawn) == [drawn EXCEPT !.location = Spell(@)]

OptPrices == {None} \cup {Some(n) : n \in 0..MaxPrice}
OptBools == {None, Some(TRUE), Some(FALSE)}

Queries ==
    [location : Locations, price_min : OptPrices, price_max : OptPrices,
     furnished : OptBools, room_in_shared : OptBools, page : 1..MaxPage]

InitUrl == IdleCalls /\ fnArg \in Queries /\ fnRet = NotCalled

CallBuildSearchUrl ==
    /\ fnRet = NotCalled
    /\ LET q == QueryOf(fnArg)
       IN fnRet' = [done |-> TRUE, url |-> build_search_url(q),
                    slug |-> Slug(q.location), params |-> UrlParams(q)]
    /\ UNCHANGED << call, clock, files, fnArg >>

SpecUrl == InitUrl /\ [][CallBuildSearchUrl]_vars

\* ---------------------------------------------------- parse_search_results
\* a page is drawn as its cards, a card as the positions of its price and its
\* link in PriceReads and LinkReads
CardPicks == [price : 1..Len(PriceReads), link : 1..Len(LinkReads)]
ParseInputs == SeqsUpTo(CardPicks, MaxCards)

CardPicked(pick) ==
    Card(TitleRead, PriceReads[pick.price], AddressRead, LinkReads[pick.link], FeaturesRead)

PagePicked(picks) ==
    PageOf(Found([i \in 1..Len(picks) |-> CardPicked(picks[i])]), NoCaptcha)

InitParse ==
    /\ IdleCalls /\ fnArg \in ParseInputs
    /\ fnRet = [done |-> FALSE, parsing |-> ParseStart]

\* one await of parse_search_results(page, DEFAULT_PROFILE) completes; after
\* the last, ret is what the function returned or raised
AwaitParseSearchResults ==
    /\ ~fnRet.done
    /\ LET ps == ParseStep(fnRet.parsing, PagePicked(fnArg), DEFAULT_PROFILE)
       IN fnRet' = IF ps.at \in {"returned", "raised"}
                   THEN [done |-> TRUE, parsing |-> ps, ret |-> ParseResult(ps)]
                   ELSE [done |-> FALSE, parsing |-> ps]
    /\ UNCHANGED << call, clock, files, fnArg >>

SpecParse == InitParse /\ [][AwaitParseSearchResults]_vars

\* ------------------------------------------------------ _looks_like_captcha
SelectorOutcomes == {Absent, Challenge, LocatorFault}

\* selector lists: the default captcha selectors, any subset in any order
SelectorLists ==
    {sels \in SeqsUpTo(1..Len(CaptchaSelectors), MaxSelectors) :
        \A i, j \in 1..Len(sels) : i # j => sels[i] # sels[j]}

CaptchaInputs ==
    {[page |-> PageOf(Absent, outcome),
      selectors |-> List([i \in 1..Len(sels) |-> Str(CaptchaSelectors[sels[i]])])] :
        outcome \in [1..Len(CaptchaSelectors) -> SelectorOutcomes], sels \in SelectorLists}

InitCaptcha ==
    /\ IdleCalls /\ fnArg \in CaptchaInputs
    /\ fnRet = [done |-> FALSE, sel |-> 1]

\* one await of _looks_like_captcha(page, selectors) completes, the count of
\* selector sel; ret is what the function returned
AwaitLooksLikeCaptcha ==
    /\ ~fnRet.done
    /\ LET out == CaptchaStep(fnArg.page, fnArg.selectors, fnRet.sel)
       IN fnRet' = IF out = "next" THEN [done |-> FALSE, sel |-> fnRet.sel + 1]
                   ELSE [done |-> TRUE, sel |-> fnRet.sel, ret |-> out = "fired"]
    /\ UNCHANGED << call, clock, files, fnArg >>

SpecCaptcha == InitCaptcha /\ [][AwaitLooksLikeCaptcha]_vars

\* --------------------------------------------------------- the override merge
OverrideItems ==
    {List(<< Str("card"), Str("div.card") >>), List(<< Str("captcha"), List(<< >>) >>),
     List(<< Str("card") >>), Str("ab"), Num(5)}

OverrideMembers ==
    {<<"card", Str("div.card")>>, <<"card", Null>>, <<"results_container", Null>>,
     <<"captcha", List(<< Str("#challenge") >>)>>, <<"colour", Str("red")>>,
     <<"title", Str("")>>}

JsonValues ==
    {Null, Num(0), Num(5), Str(""), Str("ab")}
    \cup {List(items) : items \in SeqsUpTo(OverrideItems, MaxItems)}
    \cup {Obj(members) : members \in
             {m \in SeqsUpTo(OverrideMembers, MaxItems) :
                 \A i, j \in 1..Len(m) : i # j => m[i][1] # m[j][1]}}

OverrideSources ==
    {NoPath, MissingFile, UnstatablePath, UnreadableFile, BadJson}
    \cup {JsonFile(v) : v \in JsonValues}

InitProfile == IdleCalls /\ fnArg \in OverrideSources /\ fnRet = NotCalled

CallLoadProfile ==
    /\ fnRet = NotCalled
    /\ fnRet' = [done |-> TRUE, ret |-> LoadProfile(fnArg)]
    /\ UNCHANGED << call, clock, files, fnArg >>

SpecProfile == InitProfile /\ [][CallLoadProfile]_vars

\* ================================================================ properties
Calls == {c \in CallIds : call[c].pc # "off"}
Count(log, what) == Cardinality({i \in 1..Len(log) : log[i] = what})
InLog(c, what) == Count(call[c].log, what) > 0
Exited(c) == call[c].pc \in {"returned", "raised"}

\* C1: in every call that has acquired a browser and a context, both are closed
\* by the time the call exits, whatever the exit path.
C1_SessionClosedOnExit ==
    \A c \in Calls :
        (Exited(c) /\ call[c].browser # "none" /\ call[c].context # "none")
            => (call[c].context = "closed" /\ call[c].browser = "closed")

\* the case of C1: a call that acquired a browser and a context has exited
C1_Witness ==
    \E c \in Calls :
        Exited(c) /\ call[c].browser # "none" /\ call[c].context # "none"

\* C2: scrape_zoopla is total: no fault of an internal step leaves the call, and
\* a call that has exited has returned a result whose status is ok, captcha or
\* error.
C2_NoFaultEscapes ==
    \A c \in Calls :
        /\ call[c].pc # "raised"
        /\ call[c].pc = "returned" => call[c].result.status \in {"ok", "captcha", "error"}

\* the case of C2: a call in which a step raised has exited
C2_Witness ==
    \E c \in Calls : Exited(c) /\ (call[c].exc # "" \/ call[c].raised # "")

\* C3: whenever the guardrail fires, parse_search_results is never invoked,
\* navigation is not retried, and the result returned has status captcha,
\* count 0 and no listings, whether or not a screenshot was asked for or made.
C3_CaptchaIsTerminal ==
    \A c \in Calls :
        call[c].guard = "fired" =>
            /\ ~InLog(c, "parse_search_results")
            /\ Count(call[c].log, "goto") = 1
            /\ call[c].pc = "returned" =>
                  /\ call[c].result.status = "captcha"
                  /\ call[c].result.count = 0
                  /\ call[c].result.listings = << >>

\* the case of C3: the guardrail fired and the call has returned
C3_Witness ==
    \E c \in Calls :
        call[c].guard = "fired" /\ call[c].pc = "returned" /\ call[c].take_screenshot

\* the cards of the page handed to parse_search_results
InputCards == Locate(PagePicked(fnArg), DEFAULT_PROFILE.card).els

\* C4: for a page with N cards parse_search_results returns exactly N listings
\* in card order, whatever the fields hold: a field that is missing, whose read
\* raises or whose text does not parse is absent or empty in its own listing and
\* nothing else changes.
C4_OneListingPerCard ==
    fnRet.done =>
        /\ ~fnRet.ret.raised
        /\ Len(fnRet.ret.v) = Len(InputCards)
        /\ \A i \in 1..Len(InputCards) :
              LET price == _get_text(InputCards[i], DEFAULT_PROFILE.price)
                  href == _get_attr(InputCards[i], DEFAULT_PROFILE.link, "href")
              IN /\ fnRet.ret.v[i].title = "Double room"
                 /\ fnRet.ret.v[i].address = "12 High St, Reading RG1 2AB"
                 /\ fnRet.ret.v[i].url = NormalizeUrl(OrEmpty(href))
                 /\ (~price.some \/ ~PriceGroup(price.v).some
                        \/ StrRemoveChar(PriceGroup(price.v).v, ",") = "")
                      => fnRet.ret.v[i].price_gbp = None

\* the case of C4: a page with a card whose price text is a pound sign followed
\* only by commas has been parsed
C4_Witness ==
    /\ fnRet.done
    /\ \E i \in 1..Len(InputCards) :
          _get_text(InputCards[i], DEFAULT_PROFILE.price) = Some("£,")

NavigationFaults == {GotoTimeout, GotoFailed, WaitFailed, BadSelector}
ExtractionFaults == {IntOfEmpty, CountFailed}

\* C5: when a fault is raised during navigation or during extraction,
\* context.close and browser.close are each invoked exactly once in that call,
\* never zero times and never twice, by the time the call has ended.
C5_ClosedExactlyOnce ==
    \A c \in Calls :
        (Exited(c) /\ call[c].exc \in NavigationFaults \cup ExtractionFaults) =>
            /\ Count(call[c].log, "context.close") = 1
            /\ Count(call[c].log, "browser.close") = 1

\* the selectors handed to _looks_like_captcha, and whether selector i matches
InputSelectors == fnArg.selectors.l
SelectorMatches(i) ==
    LET loc == Locate(fnArg.page, InputSelectors[i])
    IN ~loc.fault /\ Len(loc.els) > 0

\* C6: _looks_like_captcha returns true whenever at least one selector of the
\* set matches an element, for every set and order; a selector whose matching
\* raises counts as no match and does not stop the others from being checked.
C6_AnyMatchFires ==
    fnRet.done => (fnRet.ret <=> \E i \in 1..Len(InputSelectors) : SelectorMatches(i))

\* the case of C6: a selector that raises stands before one that matches
C6_Witness ==
    /\ fnRet.done
    /\ \E i, j \in 1..Len(InputSelectors) :
          i < j /\ Locate(fnArg.page, InputSelectors[i]).fault /\ SelectorMatches(j)

\* C7: a timeout of the results-container wait is tolerated: the call goes on to
\* the guardrail (and can still return ok); a timeout of the navigation is a
\* hard fault: neither guardrail nor extraction runs and the result returned has
\* status error, a note and no listings.
C7_SoftAndHardTimeouts ==
    \A c \in Calls :
        /\ call[c].waited = "timeout" =>
              /\ call[c].pc = "guard" \/ InLog(c, "_looks_like_captcha")
              /\ call[c].exc \notin {GotoTimeout, WaitFailed, BadSelector}
        /\ call[c].exc = GotoTimeout =>
              /\ ~InLog(c, "wait_for_selector")
              /\ ~InLog(c, "_looks_like_captcha")
              /\ ~InLog(c, "parse_search_results")
              /\ call[c].pc = "returned" =>
                    /\ call[c].result.status = "error"
                    /\ call[c].result.note = GotoTimeout
                    /\ call[c].result.count = 0
                    /\ call[c].result.listings = << >>

\* the case of C7: a call whose results-container wait timed out has returned ok
\* with listings
C7_Witness ==
    \E c \in Calls :
        /\ call[c].waited = "timeout"
        /\ call[c].pc = "returned"
        /\ call[c].result.status = "ok"
        /\ call[c].result.count > 0

\* the case of C7 for navigation: a call whose navigation timed out has returned
C7_WitnessNavigation ==
    \E c \in Calls : call[c].exc = GotoTimeout /\ call[c].pc = "returned"

ParamNames == [i \in 1..Len(fnRet.params) |-> fnRet.params[i].name]
HasParam(name) == \E i \in 1..Len(ParamNames) : ParamNames[i] = name
ParamOrder ==
    << "search_source", "price_min", "price_max", "furnished_state", "property_type", "pn" >>
Rank(name) == CHOOSE k \in 1..Len(ParamOrder) : ParamOrder[k] = name

\* C8: build_search_url appends the parameters in the order marker, price_min,
\* price_max, furnished state, room-share, page, each optional one exactly when
\* it is present: price_min and price_max whenever a value is supplied (0
\* included), the furnished state iff furnished is given, the room-share filter
\* iff room_in_shared is true, the page iff page > 1.
C8_ParamsWhenPresent ==
    fnRet.done =>
        /\ \A i, j \in 1..Len(ParamNames) : i < j => Rank(ParamNames[i]) < Rank(ParamNames[j])
        /\ HasParam("search_source")
        /\ HasParam("price_min") <=> fnArg.price_min.some
        /\ HasParam("price_max") <=> fnArg.price_max.some
        /\ HasParam("furnished_state") <=> fnArg.furnished.some
        /\ HasParam("property_type") <=> fnArg.room_in_shared = Some(TRUE)
        /\ HasParam("pn") <=> fnArg.page > 1

\* the case of C8: a URL has been built for a query that supplies the price 0
C8_Witness == fnRet.done /\ (fnArg.price_min = Some(0) \/ fnArg.price_max = Some(0))

\* s with each maximal run of white space replaced by one hyphen
RECURSIVE HyphenateRuns(_)
HyphenateRuns(s) ==
    IF s = "" THEN ""
    ELSE IF IsSpace(CharAt(s, 1))
    THEN "-" \o HyphenateRuns(SubSeq(s, 1 + RunLen(s, 1, SpaceChars), Len(s)))
    ELSE CharAt(s, 1) \o HyphenateRuns(Tail(s))

\* C9: the slug is the lower-cased location with each maximal run of white
\* space replaced by a single hyphen, so it holds no white space character.
C9_SlugCollapsesWhitespace ==
    fnRet.done =>
        /\ fnRet.slug = HyphenateRuns(StrLower(Spell(fnArg.location)))
        /\ \A i \in 1..Len(fnRet.slug) : ~IsSpace(CharAt(fnRet.slug, i))

\* the case of C9: a slug has been built for a location with two white space
\* characters in a row
C9_Witness ==
    /\ fnRet.done
    /\ \E i \in 1..(Len(fnArg.location) - 1) :
          /\ IsSpace(CharAt(Spell(fnArg.location), i))
          /\ IsSpace(CharAt(Spell(fnArg.location), i + 1))

\* the override is a JSON object: a field-to-selector mapping
IsMapping(source) == source.kind = "json" /\ source.v.t = "obj"

\* C10: when the override is missing, unreadable, fails to parse or parses to
\* something that is no mapping, the profile of the call equals the built-in
\* default in every key.
C10_BadOverrideIgnored ==
    (fnRet.done /\ ~IsMapping(fnArg)) =>
        \A k \in DOMAIN DEFAULT_PROFILE :
            /\ ~fnRet.ret.raised
            /\ k \in DOMAIN fnRet.ret.v /\ fnRet.ret.v[k] = DEFAULT_PROFILE[k]

\* the case of C10: the profile has been loaded from an override that parses to
\* a JSON array with an item in it
C10_Witness ==
    fnRet.done /\ fnArg.kind = "json" /\ fnArg.v.t = "list" /\ fnArg.v.l # << >>

\* a value an override gives as null or empty
NullOrEmpty(v) == v = Null \/ v = Str("") \/ v = List(<< >>)

\* C11: after the merge of an override that loads, every recognized field has
\* a defined, usable selector value, and a key the override omits or gives as
\* null or empty keeps its default value.
C11_RecognizedFieldsUsable ==
    (fnRet.done /\ IsMapping(fnArg)) =>
        \A k \in DOMAIN DEFAULT_PROFILE :
            /\ ~fnRet.ret.raised
            /\ k \in DOMAIN fnRet.ret.v
            /\ ~NullOrEmpty(fnRet.ret.v[k])
            /\ LET given == Lookup(fnArg.v.pairs, k)
               IN (~given.some \/ NullOrEmpty(given.v)) =>
                      fnRet.ret.v[k] = DEFAULT_PROFILE[k]

\* the case of C11: the profile has been merged from an override object that
\* gives a recognized field as null or empty
C11_Witness ==
    /\ fnRet.done /\ IsMapping(fnArg)
    /\ \E k \in DOMAIN DEFAULT_PROFILE :
          LET given == Lookup(fnArg.v.pairs, k)
          IN given.some /\ NullOrEmpty(given.v)

\* C12: calls in flight at once share no mutable state: the session of a call
\* is closed by that call only, a call without an override works with the
\* built-in profile whatever overrides the other calls load, and no file that
\* one call writes (its screenshot) is written by another call.
C12_NoSharedState ==
    /\ \A c \in Calls :
          /\ call[c].browser = "closed" => InLog(c, "browser.close")
          /\ call[c].context = "closed" => InLog(c, "context.close")
          /\ (call[c].source = NoPath /\ call[c].pc # "new") =>
                 call[c].profile = DEFAULT_PROFILE
    /\ \A f, g \in files : f.path = g.path => f.by = g.by

\* the case of C12: two calls have each written a screenshot
C12_Witness ==
    \E f, g \in files : f.by # g.by

\* C13: in every result scrape_zoopla returns, on each of the three statuses,
\* count equals the length of listings.
C13_CountIsLength ==
    \A c \in Calls :
        call[c].pc = "returned" =>
            /\ call[c].result.status \in {"ok", "captcha", "error"}
            /\ call[c].result.count = Len(call[c].result.listings)

\* the case of C13: a call has returned status ok with listings in the result
C13_Witness ==
    \E c \in Calls :
        /\ call[c].pc = "returned"
        /\ call[c].result.status = "ok"
        /\ call[c].result.listings # << >>

\* the steps of a call in the order the claim gives them
StepOrder ==
    << "goto", "wait_for_selector", "_looks_like_captcha", "_polite_delay",
       "parse_search_results" >>

StepRank(what) ==
    IF \E k \in 1..Len(StepOrder) : StepOrder[k] = what
    THEN CHOOSE k \in 1..Len(StepOrder) : StepOrder[k] = what
    ELSE 0

\* the steps a call has made are in the fixed order, each made once at most;
\* no card is read unless the guardrail has returned false and the politeness
\* delay has completed
StepsInOrder(c) ==
    /\ \A i, j \in 1..Len(call[c].log) :
          (i < j /\ StepRank(call[c].log[i]) > 0 /\ StepRank(call[c].log[j]) > 0) =>
              StepRank(call[c].log[i]) < StepRank(call[c].log[j])
    /\ InLog(c, "parse_search_results") =>
          /\ call[c].guard = "clear"
          /\ InLog(c, "_polite_delay")

\* the navigation of the call succeeded: goto loaded a page
Navigated(c) == call[c].dom # ""

\* C14 as claimed: the steps occur in the fixed order navigation, wait,
\* guardrail, politeness delay, extraction; no card is read before the
\* guardrail returned false and the delay completed; and the guardrail is
\* evaluated exactly once in every call whose navigation succeeded.
C14_GuardrailOncePerNavigation ==
    \A c \in Calls :
        /\ StepsInOrder(c)
        /\ (Exited(c) /\ Navigated(c)) => Count(call[c].log, "_looks_like_captcha") = 1

\* C14 as amended: the same, with the guardrail evaluated exactly once in every
\* call whose navigation succeeded and whose results-container wait did not
\* raise anything but its timeout (and never twice in any call).
C14_GuardrailOnceAfterWait ==
    \A c \in Calls :
        /\ StepsInOrder(c)
        /\ Count(call[c].log, "_looks_like_captcha") <= 1
        /\ (Exited(c) /\ Navigated(c) /\ call[c].exc \notin {WaitFailed, BadSelector}) =>
               Count(call[c].log, "_looks_like_captcha") = 1
        /\ (Exited(c) /\ call[c].exc \in {WaitFailed, BadSelector}) =>
               ~InLog(c, "_looks_like_captcha")

\* the case of C14: a call has gone through all five steps and exited
C14_Witness ==
    \E c \in Calls :
        /\ Exited(c) /\ Navigated(c)
        /\ InLog(c, "wait_for_selector") /\ InLog(c, "parse_search_results")

\* parse_search_results has returned its listings in call c
Extracted(c) ==
    /\ Navigated(c) /\ call[c].guard = "clear"
    /\ InLog(c, "parse_search_results") /\ call[c].exc \notin ExtractionFaults

\* C15: once navigation has succeeded, the guardrail has not fired and
\* parse_search_results has returned its listings, the result the call returns
\* has status ok with count and listings equal to what was extracted, whatever
\* the optional screenshot or the session close did afterwards.
C15_ExtractedResultKept ==
    \A c \in Calls :
        (Extracted(c) /\ call[c].pc = "returned") =>
            /\ call[c].result.status = "ok"
            /\ call[c].result.listings = call[c].listings
            /\ call[c].result.count = Len(call[c].listings)

\* the case of C15: a call that extracted listings has returned
C15_Witness ==
    \E c \in Calls : Extracted(c) /\ call[c].pc = "returned" /\ call[c].listings # << >>

\* C16: in every returned result the screenshot is non-null only if
\* take_screenshot was requested and this call captured a screenshot to that
\* path; when the attempt fails the result's screenshot is null.
C16_ScreenshotOnlyIfCaptured ==
    \A c \in Calls :
        (call[c].pc = "returned" /\ call[c].result.screenshot.some) =>
            /\ call[c].take_screenshot
            /\ [path |-> call[c].result.screenshot.v, by |-> c] \in files

\* the case of C16: a call with take_screenshot on has returned a result that
\* names a screenshot
C16_Witness ==
    \E c \in Calls :
        /\ call[c].pc = "returned" /\ call[c].take_screenshot
        /\ call[c].result.screenshot.some
====
